---- MODULE Spec2Model ----
(***************************************************************************)
(* yaperf (src/main.go): main loads urls.yaml, installs an interrupt       *)
(* handler that cancels a context, and loops forever over the URL list.    *)
(* For each URL it calls downloadAndMeasure, which starts a goroutine that *)
(* GETs the URL, reads the body, and sends Stats on an unbuffered channel; *)
(* main's select receives ONE value from that channel (or observes         *)
(* ctx.Done) and goes on to the next URL.                                  *)
(*                                                                         *)
(* Time is a discrete monotonic clock whose unit is the ticker period      *)
(* (1 second): two readings of time.Since taken within the same unit are   *)
(* equal, as Go's monotonic clock only promises not to go backwards.       *)
(* The float fields SpeedMBps/SpeedMbps of Stats are functions of          *)
(* SizeBytes and Elapsed and are not carried in the model.                 *)
(***************************************************************************)
EXTENDS Integers, Sequences, FiniteSets, TLC

\* ---------------------------------------------------------------- bounds
MaxUrls  == 1      \* longest URL list in urls.yaml
MaxTasks == 2      \* download goroutines alive at once
MaxBody  == 2      \* longest response body, in bytes
MaxTime  == 2      \* the clock stops advancing here

\* the URL lists urls.yaml may hold: the prefixes of one list of distinct URLs
UrlName(i) == <<"a", "b", "c", "d">>[i]
Configs  == {[i \in 1..n |-> UrlName(i)] : n \in 0..MaxUrls}
Slots    == 1..MaxTasks
BufSize  == 32 * 1024

VARIABLES
    fileStatus,   \* urls.yaml: "ok", "unreadable" or "malformed"
    urls,         \* config.URLs
    mainPc,       \* position of main
    idx,          \* index of the inner range loop (1-based)
    cur,          \* slot of the channel main's select is receiving from, 0 if none
    printed,      \* what main's latest step printed ([ok, st]), NoStats if nothing
    ctxDone,      \* ctx.Done() is closed
    notified,     \* signal.Notify has been called
    signalChan,   \* number of signals buffered in signalChan (capacity 1)
    sigPc,        \* the signal goroutine: "none", "wait", "done"
    now,          \* monotonic clock
    tasks         \* download goroutines, by slot

vars == <<fileStatus, urls, mainPc, idx, cur, printed, ctxDone, notified,
          signalChan, sigPc, now, tasks>>

\* ----------------------------------------------------------------- Stats
NoStats == [none |-> TRUE]

Stats(url, size, elapsed, err) ==
    [URL |-> url, SizeBytes |-> size, Elapsed |-> elapsed, Err |-> err]

\* the zero value a receive from a closed channel yields
ZeroStats == Stats("", 0, 0, "nil")

\* a Stats as built at the three send sites of the goroutine
ErrStats(url, err) == Stats(url, 0, 0, err)

Since(start) == now - start

Min(a, b) == IF a < b THEN a ELSE b

\* ----------------------------------------------------------------- tasks
FreeTask ==
    [pc |-> "free", url |-> "", start |-> 0, downloaded |-> 0,
     bodyLen |-> 0, remaining |-> 0, tickC |-> FALSE, tickerOn |-> FALSE,
     bodyOpen |-> FALSE, out |-> NoStats, sent |-> <<>>, delivered |-> 0,
     getOk |-> FALSE, err |-> "nil", cancelled |-> FALSE]

NewTask(url) == [FreeTask EXCEPT !.pc = "get", !.url = url]

SendPcs == {"sendGetErr", "sendTick", "sendFinal", "sendReadErr"}

\* the process is alive: main has neither returned nor called log.Fatal
Running == mainPc \notin {"returned", "fatal"}

\* a goroutine that has exited and whose channel main no longer holds
Gone(t) == tasks[t].pc \in {"free", "closed"} /\ cur # t

\* a goroutine blocked in a send on a channel main no longer holds
Stuck(t) == tasks[t].pc \in SendPcs /\ cur # t

\* a slot the next goroutine can take: one of a goroutine that is gone, or,
\* when there is none, one of a goroutine that is blocked for ever
Reusable(t) ==
    \/ Gone(t)
    \/ Stuck(t) /\ \A u \in Slots : ~Gone(u)

\* the slot the next goroutine takes: the first one it can take
NextSlot(t) == Reusable(t) /\ \A u \in Slots : Reusable(u) => t <= u

\* one entry of the history of Samples a goroutine has put on its channel
Entry(kind, st) == [kind |-> kind, st |-> st, afterCancel |-> ctxDone]

Init ==
    /\ fileStatus \in {"ok", "unreadable", "malformed"}
    /\ urls \in Configs
    /\ mainPc = "start"
    /\ idx = 1
    /\ cur = 0
    /\ printed = NoStats
    /\ ctxDone = FALSE
    /\ notified = FALSE
    /\ signalChan = 0
    /\ sigPc = "none"
    /\ now = 0
    /\ tasks = [t \in Slots |-> FreeTask]

\* ------------------------------------------------------------------ main
\* MainStart with a log.Fatal when the URL list is empty
MainStart_FatalOnEmpty ==
    /\ mainPc = "start"
    /\ IF fileStatus = "ok" /\ urls # <<>>
         THEN /\ mainPc' = "outer"
              /\ notified' = TRUE
              /\ sigPc' = "wait"
         ELSE /\ mainPc' = "fatal"
              /\ UNCHANGED <<notified, sigPc>>
    /\ UNCHANGED <<fileStatus, urls, idx, cur, printed, ctxDone, signalChan,
                   now, tasks>>

\* MainStart with lines 105-114 moved before the reading of urls.yaml
MainStart_NotifyFirst ==
    /\ mainPc = "start"
    /\ mainPc' = IF fileStatus = "ok" THEN "outer" ELSE "fatal"
    /\ notified' = TRUE
    /\ sigPc' = "wait"
    /\ UNCHANGED <<fileStatus, urls, idx, cur, printed, ctxDone, signalChan,
                   now, tasks>>

\* main, lines 95-114: read and parse urls.yaml, create the context,
\* register the interrupt handler and start the signal goroutine
MainStart ==
    /\ mainPc = "start"
    /\ IF fileStatus = "ok"
         THEN /\ mainPc' = "outer"
              /\ notified' = TRUE
              /\ sigPc' = "wait"
         ELSE /\ mainPc' = "fatal"
              /\ UNCHANGED <<notified, sigPc>>
    /\ UNCHANGED <<fileStatus, urls, idx, cur, printed, ctxDone, signalChan,
                   now, tasks>>

\* line 116: for {  -- enter the range loop over config.URLs
MainOuter ==
    /\ mainPc = "outer"
    /\ mainPc' = "range"
    /\ idx' = 1
    /\ UNCHANGED <<fileStatus, urls, cur, printed, ctxDone, notified,
                   signalChan, sigPc, now, tasks>>

\* line 117: the range loop is exhausted, back to the outer for
MainRangeEnd ==
    /\ mainPc = "range"
    /\ idx > Len(urls)
    /\ mainPc' = "outer"
    /\ printed' = NoStats
    /\ UNCHANGED <<fileStatus, urls, idx, cur, ctxDone, notified,
                   signalChan, sigPc, now, tasks>>

\* lines 118-121: entering the select evaluates its channel operands, so
\* downloadAndMeasure(ctx, url) is called, and its goroutine started,
\* whether or not ctx is done
MainCall ==
    /\ mainPc = "range"
    /\ idx <= Len(urls)
    /\ \E t \in Slots :
        /\ NextSlot(t)
        /\ tasks' = [tasks EXCEPT ![t] = NewTask(urls[idx])]
        /\ cur' = t
    /\ mainPc' = "select"
    /\ printed' = NoStats
    /\ UNCHANGED <<fileStatus, urls, idx, ctxDone, notified,
                   signalChan, sigPc, now>>

\* lines 119-120: case <-ctx.Done(): return; the deferred cancel() runs
MainReturn ==
    /\ mainPc = "select"
    /\ ctxDone
    /\ mainPc' = "returned"
    /\ ctxDone' = TRUE
    /\ UNCHANGED <<fileStatus, urls, idx, cur, printed, notified, signalChan,
                   sigPc, now, tasks>>

\* AfterSend without the return of line 43
AfterSend_NoReturnOnGetErr(pc) ==
    IF pc \in {"sendTick", "sendGetErr"} THEN "select" ELSE "ret"

\* where a goroutine continues once its send has been received
AfterSend(pc) == IF pc = "sendTick" THEN "select" ELSE "ret"

\* MainRecv with a log.Fatal(result.Error) when the result carries an error
MainRecv_FatalOnError ==
    /\ mainPc = "select"
    /\ cur # 0
    /\ tasks[cur].pc \in SendPcs
    /\ printed' = [ok |-> TRUE, st |-> tasks[cur].out]
    /\ tasks' = [tasks EXCEPT ![cur] =
                    [@ EXCEPT !.pc = AfterSend(@), !.out = NoStats,
                              !.delivered = @ + 1]]
    /\ idx' = idx + 1
    /\ cur' = 0
    /\ mainPc' = IF tasks[cur].out.Err # "nil" THEN "fatal" ELSE "range"
    /\ UNCHANGED <<fileStatus, urls, ctxDone, notified, signalChan, sigPc,
                   now>>

\* lines 121-125: case result := <-ch: the goroutine's pending send
\* completes, main prints the result and goes on to the next URL
MainRecv ==
    /\ mainPc = "select"
    /\ cur # 0
    /\ tasks[cur].pc \in SendPcs
    /\ printed' = [ok |-> TRUE, st |-> tasks[cur].out]
    /\ tasks' = [tasks EXCEPT ![cur] =
                    [@ EXCEPT !.pc = AfterSend(@), !.out = NoStats,
                              !.delivered = @ + 1]]
    /\ idx' = idx + 1
    /\ cur' = 0
    /\ mainPc' = "range"
    /\ UNCHANGED <<fileStatus, urls, ctxDone, notified, signalChan, sigPc,
                   now>>

\* lines 121-125: the channel was closed without a pending send: the
\* receive yields the zero Stats, which main prints like any other
MainRecvClosed ==
    /\ mainPc = "select"
    /\ cur # 0
    /\ tasks[cur].pc = "closed"
    /\ printed' = [ok |-> FALSE, st |-> ZeroStats]
    /\ tasks' = [tasks EXCEPT ![cur] = FreeTask]
    /\ idx' = idx + 1
    /\ cur' = 0
    /\ mainPc' = "range"
    /\ UNCHANGED <<fileStatus, urls, ctxDone, notified, signalChan, sigPc,
                   now>>

\* ------------------------------------------------- the signal goroutine
\* the operating system delivers SIGINT; Notify does not block: a signal
\* that finds the buffer full is dropped
Interrupt ==
    /\ Running
    /\ notified
    /\ signalChan = 0
    /\ signalChan' = 1
    /\ UNCHANGED <<fileStatus, urls, mainPc, idx, cur, printed, ctxDone,
                   notified, sigPc, now, tasks>>

\* lines 110-114: <-signalChan; Println; cancel()
SignalHandler ==
    /\ Running
    /\ sigPc = "wait"
    /\ signalChan = 1
    /\ signalChan' = 0
    /\ sigPc' = "done"
    /\ ctxDone' = TRUE
    /\ UNCHANGED <<fileStatus, urls, mainPc, idx, cur, printed, notified,
                   now, tasks>>

\* ------------------------------------------------------------ the clock
\* one ticker period passes: every running ticker puts a tick in its
\* channel (capacity 1; a tick that finds it full is dropped)
AdvanceTime ==
    /\ Running
    /\ now < MaxTime
    /\ now' = now + 1
    /\ tasks' = [t \in Slots |->
                    IF tasks[t].tickerOn
                      THEN [tasks[t] EXCEPT !.tickC = TRUE]
                      ELSE tasks[t]]
    /\ UNCHANGED <<fileStatus, urls, mainPc, idx, cur, printed, ctxDone,
                   notified, signalChan, sigPc>>

\* ------------------------------------------------ the download goroutine
TaskUnchanged ==
    UNCHANGED <<fileStatus, urls, mainPc, idx, cur, printed, ctxDone,
                notified, signalChan, sigPc, now>>

\* lines 40-44: client.Get failed: send one Stats with the error, return
GetFailed(t) ==
    LET st == ErrStats(tasks[t].url, "connect") IN
    [tasks[t] EXCEPT !.pc = "sendGetErr", !.out = st,
                     !.sent = Append(@, Entry("error", st))]

\* lines 45-51: client.Get succeeded with a body of len bytes
GetSucceeded(t, len) ==
    [tasks[t] EXCEPT !.pc = "select", !.getOk = TRUE, !.bodyOpen = TRUE,
                     !.bodyLen = len, !.remaining = len, !.downloaded = 0,
                     !.start = now, !.tickerOn = TRUE, !.tickC = FALSE]

\* line 40: resp, err := client.Get(url)
TaskGet(t) ==
    /\ Running
    /\ tasks[t].pc = "get"
    /\ \/ tasks' = [tasks EXCEPT ![t] = GetFailed(t)]
       \/ \E len \in 0..MaxBody :
            tasks' = [tasks EXCEPT ![t] = GetSucceeded(t, len)]
    /\ TaskUnchanged

\* DefaultReady of a select without the ctx.Done() case
DefaultReady_NoCtx(t) == ~tasks[t].tickC

\* the select of line 54 takes its default branch only when neither
\* ctx.Done() nor ticker.C is ready
DefaultReady(t) == ~ctxDone /\ ~tasks[t].tickC

\* Cancelled with a break in place of the return of line 57
Cancelled_Break(t) == [tasks[t] EXCEPT !.pc = "select", !.cancelled = TRUE]

\* lines 55-57: case <-ctx.Done(): log, return
Cancelled(t) == [tasks[t] EXCEPT !.pc = "ret", !.cancelled = TRUE]

TaskSelectDone(t) ==
    /\ Running
    /\ tasks[t].pc = "select"
    /\ ctxDone
    /\ tasks' = [tasks EXCEPT ![t] = Cancelled(t)]
    /\ TaskUnchanged

\* TickStats with the operands of the elapsed time swapped
TickStats_Swapped(t) ==
    Stats(tasks[t].url, tasks[t].downloaded, tasks[t].start - now, "nil")

\* TickStats with the bit count of line 65 as SizeBytes
TickStats_Bits(t) ==
    Stats(tasks[t].url, tasks[t].downloaded * 8, Since(tasks[t].start), "nil")

\* lines 58-66: case <-ticker.C: build a Stats of the bytes so far, send it
TickStats(t) == Stats(tasks[t].url, tasks[t].downloaded, Since(tasks[t].start), "nil")

\* Ticked with a send that does not block (a buffered channel)
Ticked_NoBlock(t) ==
    [tasks[t] EXCEPT !.pc = "select", !.tickC = FALSE,
                     !.sent = Append(@, Entry("tick", TickStats(t)))]

\* lines 58-66: the tick is taken and the goroutine blocks in ch <- Stats
Ticked(t) ==
    [tasks[t] EXCEPT !.pc = "sendTick", !.tickC = FALSE,
                     !.out = TickStats(t),
                     !.sent = Append(@, Entry("tick", TickStats(t)))]

TaskSelectTick(t) ==
    /\ Running
    /\ tasks[t].pc = "select"
    /\ tasks[t].tickC
    /\ tasks' = [tasks EXCEPT ![t] = Ticked(t)]
    /\ TaskUnchanged

\* lines 67-68: default: resp.Body.Read(buf) is called and blocks
TaskSelectDefault(t) ==
    /\ Running
    /\ tasks[t].pc = "select"
    /\ DefaultReady(t)
    /\ tasks' = [tasks EXCEPT ![t] =
                    [@ EXCEPT !.pc = "reading"]]
    /\ TaskUnchanged

\* what a Read of a body with rem bytes left can return: n bytes and
\* "nil", "EOF" (only with the last byte of the body, or after it) or "read"
\* (any other error); a Read without error returns at least one byte
ReadResults(rem) ==
    {r \in [n : 0..Min(rem, BufSize), err : {"nil", "EOF", "read"}] :
        /\ r.err = "nil" => r.n > 0
        /\ r.err = "EOF" => r.n = rem}

\* Downloaded with = in place of +=
Downloaded_Assign(t, n) == IF n > 0 THEN n ELSE tasks[t].downloaded

\* lines 69-71: if n > 0 { downloaded += int64(n) }
Downloaded(t, n) == IF n > 0 THEN tasks[t].downloaded + n ELSE tasks[t].downloaded

\* lines 72-82: the final Stats built on io.EOF
FinalStats(t, n) == Stats(tasks[t].url, Downloaded(t, n), Since(tasks[t].start), "nil")

\* AfterRead without the err != nil branch of lines 83-86
AfterRead_IgnoreErr(t, r) ==
    LET tk == [tasks[t] EXCEPT !.downloaded = Downloaded(t, r.n),
                               !.remaining = @ - r.n, !.err = r.err] IN
    IF r.err = "EOF"
      THEN [tk EXCEPT !.pc = "sendFinal", !.out = FinalStats(t, r.n),
                      !.sent = Append(@, Entry("final", FinalStats(t, r.n)))]
      ELSE [tk EXCEPT !.pc = "select"]

\* AfterRead that returns on io.EOF without the send of lines 73-80
AfterRead_SilentEOF(t, r) ==
    LET tk == [tasks[t] EXCEPT !.downloaded = Downloaded(t, r.n),
                               !.remaining = @ - r.n, !.err = r.err] IN
    IF r.err = "EOF"
      THEN [tk EXCEPT !.pc = "ret"]
    ELSE IF r.err # "nil"
      THEN [tk EXCEPT !.pc = "sendReadErr", !.out = ErrStats(tasks[t].url, r.err),
                      !.sent = Append(@, Entry("error", ErrStats(tasks[t].url, r.err)))]
    ELSE [tk EXCEPT !.pc = "select"]

\* lines 68-87: Read returns; on EOF send the final Stats and return, on
\* another error send a Stats with the error and return, else loop
AfterRead(t, r) ==
    LET tk == [tasks[t] EXCEPT !.downloaded = Downloaded(t, r.n),
                               !.remaining = @ - r.n, !.err = r.err] IN
    IF r.err = "EOF"
      THEN [tk EXCEPT !.pc = "sendFinal", !.out = FinalStats(t, r.n),
                      !.sent = Append(@, Entry("final", FinalStats(t, r.n)))]
    ELSE IF r.err # "nil"
      THEN [tk EXCEPT !.pc = "sendReadErr", !.out = ErrStats(tasks[t].url, r.err),
                      !.sent = Append(@, Entry("error", ErrStats(tasks[t].url, r.err)))]
    ELSE [tk EXCEPT !.pc = "select"]

TaskReadReturn(t) ==
    /\ Running
    /\ tasks[t].pc = "reading"
    /\ \E r \in ReadResults(tasks[t].remaining) :
            tasks' = [tasks EXCEPT ![t] = AfterRead(t, r)]
    /\ TaskUnchanged

\* lines 34, 45, 51: the deferred calls of a return: ticker.Stop(),
\* resp.Body.Close(), close(ch); the goroutine is over, and so is its
\* record unless main still holds the channel
Returned(t) ==
    IF cur = t
      THEN [tasks[t] EXCEPT !.pc = "closed", !.tickerOn = FALSE,
                            !.tickC = FALSE, !.bodyOpen = FALSE]
      ELSE FreeTask

TaskReturn(t) ==
    /\ Running
    /\ tasks[t].pc = "ret"
    /\ tasks' = [tasks EXCEPT ![t] = Returned(t)]
    /\ TaskUnchanged

TaskStep(t) ==
    \/ TaskGet(t)
    \/ TaskSelectDone(t)
    \/ TaskSelectTick(t)
    \/ TaskSelectDefault(t)
    \/ TaskReadReturn(t)
    \/ TaskReturn(t)

MainStep ==
    \/ MainStart
    \/ MainOuter
    \/ MainRangeEnd
    \/ MainCall
    \/ MainReturn
    \/ MainRecv
    \/ MainRecvClosed

Next ==
    \/ MainStart
    \/ MainOuter
    \/ MainRangeEnd
    \/ MainCall
    \/ MainReturn
    \/ MainRecv
    \/ MainRecvClosed
    \/ Interrupt
    \/ SignalHandler
    \/ AdvanceTime
    \/ \E t \in Slots : TaskGet(t)
    \/ \E t \in Slots : TaskSelectDone(t)
    \/ \E t \in Slots : TaskSelectTick(t)
    \/ \E t \in Slots : TaskSelectDefault(t)
    \/ \E t \in Slots : TaskReadReturn(t)
    \/ \E t \in Slots : TaskReturn(t)

Spec == Init /\ [][Next]_vars

\* Go's scheduler runs every runnable goroutine, network calls return, and
\* a select with several ready cases picks each of them with equal
\* probability, so a case that is ready again and again is taken.  The
\* clock and the interrupt are the environment's and carry no fairness.
FairSpec ==
    /\ Spec
    /\ WF_vars(MainStep)
    /\ SF_vars(MainReturn)
    /\ WF_vars(SignalHandler)
    /\ \A t \in Slots : WF_vars(TaskStep(t)) /\ SF_vars(TaskSelectDone(t))

TypeOK ==
    /\ mainPc \in {"start", "fatal", "outer", "range", "select", "returned"}
    /\ cur \in 0..MaxTasks
    /\ now \in 0..MaxTime
    /\ \A t \in Slots : tasks[t].pc \in
          {"free", "get", "select", "reading", "ret", "closed"} \cup SendPcs

\* ================================================================ claims
Active(t) == tasks[t].pc # "free"

\* a download that is connecting, reading its body (or between two reads),
\* or waiting to send a Sample
InFlight(t) == tasks[t].pc \in {"get", "select", "reading"} \cup SendPcs

\* a download whose goroutine is past its last send
Ended(t) == tasks[t].pc \in {"ret", "closed", "free"}

Sent(t) == tasks[t].sent
OfKind(t, kinds) == {i \in DOMAIN Sent(t) : Sent(t)[i].kind \in kinds}

\* main leaves the select of a URL visit for the next URL
MovesOn == mainPc = "select" /\ mainPc' = "range"

\* C1: when main moves on to the next URL, the download of the URL it
\* leaves is past its last send and main has received every Sample it sent
\* (the weakest reading of "the sequence has ended").
C1_DrainsBeforeNext ==
    [][MovesOn => /\ tasks'[cur].pc \in {"ret", "closed", "free"}
                  /\ tasks'[cur].delivered = Len(tasks'[cur].sent)]_vars

\* C2: at most one download is in flight in every reachable state.
C2_OneInFlight == Cardinality({t \in Slots : InFlight(t)}) <= 1

\* C3: every download started eventually terminates and closes its channel
\* (or the process has exited), whatever main does.
C3_TaskTerminates ==
    \A t \in Slots : (tasks[t].pc = "get") ~> (Ended(t) \/ ~Running)

\* C4: once a Read has returned io.EOF the goroutine has put exactly one
\* final Sample on the channel, it is the last one, carries no error, its
\* SizeBytes is the length of the body and its Elapsed is >= 0, and the
\* goroutine only waits for it to be received, returns and closes.
C4_FinalSample ==
    \A t \in Slots :
        /\ Cardinality(OfKind(t, {"final"})) <= 1
        /\ \A i \in OfKind(t, {"final"}) :
              /\ i = Len(Sent(t))
              /\ Sent(t)[i].st.Err = "nil"
              /\ Sent(t)[i].st.SizeBytes = tasks[t].bodyLen
              /\ Sent(t)[i].st.Elapsed >= 0
        /\ tasks[t].err = "EOF" =>
              /\ OfKind(t, {"final"}) # {}
              /\ tasks[t].pc \in {"sendFinal", "ret", "closed"}
              /\ tasks[t].pc = "sendFinal" => tasks[t].out = Sent(t)[Len(Sent(t))].st

\* a download of a body in two chunks has ended with its final Sample received
C4_Witness ==
    \E t \in Slots :
        /\ tasks[t].pc = "ret" /\ tasks[t].err = "EOF"
        /\ tasks[t].bodyLen >= 2
        /\ tasks[t].delivered = Len(Sent(t))

\* C5: a download whose GET failed puts exactly one Sample on the channel,
\* with the error and SizeBytes 0, then returns and closes; it reads no
\* body and builds no tick Sample.
C5_GetError ==
    \A t \in Slots :
        (Active(t) /\ tasks[t].pc # "get" /\ ~tasks[t].getOk) =>
            /\ Len(Sent(t)) = 1
            /\ Sent(t)[1].kind = "error"
            /\ Sent(t)[1].st.Err = "connect"
            /\ Sent(t)[1].st.SizeBytes = 0
            /\ tasks[t].pc \in {"sendGetErr", "ret", "closed"}
            /\ tasks[t].downloaded = 0
            /\ ~tasks[t].bodyOpen /\ ~tasks[t].tickerOn

\* the error Sample of a failed GET was received and the goroutine returns
C5_Witness ==
    \E t \in Slots :
        /\ tasks[t].pc = "ret" /\ ~tasks[t].getOk
        /\ tasks[t].delivered = 1

\* C6: once a Read has returned an error other than io.EOF the goroutine
\* has put exactly one Sample with that error on the channel, it is the
\* last one, and the goroutine only waits for it to be received, returns
\* and closes: no further read, no further Sample.
C6_ReadError ==
    \A t \in Slots :
        tasks[t].err = "read" =>
            /\ Cardinality(OfKind(t, {"error"})) = 1
            /\ Sent(t)[Len(Sent(t))].kind = "error"
            /\ Sent(t)[Len(Sent(t))].st.Err = "read"
            /\ OfKind(t, {"final"}) = {}
            /\ tasks[t].pc \in {"sendReadErr", "ret", "closed"}

\* a read error after some bytes: its Sample was received, the goroutine returns
C6_Witness ==
    \E t \in Slots :
        /\ tasks[t].err = "read" /\ tasks[t].pc = "ret"
        /\ tasks[t].downloaded > 0
        /\ tasks[t].delivered = Len(Sent(t))

\* C7 as stated: no Sample built from an end-of-stream read is put on the
\* channel once the cancellation signal has been triggered.
C7_NoFinalAfterCancel ==
    \A t \in Slots : \A i \in OfKind(t, {"final"}) : ~Sent(t)[i].afterCancel

\* C7, amended: once the cancellation signal has been triggered no
\* goroutine starts a body read, so a final Sample sent after it comes
\* from a read that was in progress when it was triggered.
C7_NoReadStartsAfterCancel ==
    [][\A t \in Slots :
          /\ (tasks[t].pc # "reading" /\ tasks'[t].pc = "reading") => ~ctxDone
          /\ (ctxDone /\ ~(OfKind(t, {"final"})' \subseteq OfKind(t, {"final"})))
                => tasks[t].pc = "reading"]_vars

\* a read was in progress when the context was cancelled and returned
\* io.EOF afterwards: the goroutine is sending its final Sample
C7_Witness ==
    \E t \in Slots :
        /\ ctxDone /\ tasks[t].pc = "sendFinal"
        /\ Sent(t)[Len(Sent(t))].afterCancel
        /\ tasks[t].downloaded > 0

\* C8: a goroutine whose select took the ctx.Done() branch reads no more,
\* puts no further Sample on the channel (every Sample it has sent is a
\* tick Sample that was received) and closes the channel.
C8_CancelBranch ==
    \A t \in Slots :
        tasks[t].cancelled =>
            /\ tasks[t].pc \in {"ret", "closed"}
            /\ OfKind(t, {"final", "error"}) = {}
            /\ tasks[t].out = NoStats
            /\ tasks[t].delivered = Len(Sent(t))
            /\ tasks[t].pc = "closed" => ~tasks[t].tickerOn /\ ~tasks[t].bodyOpen

\* a cancelled download has closed its channel while main still holds it
C8_Witness ==
    \E t \in Slots : tasks[t].cancelled /\ tasks[t].pc = "closed"

\* C9: after the interrupt has cancelled the context main eventually
\* returns, for every URL list, the empty one included.
C9_ShutdownCompletes == ctxDone ~> (mainPc = "returned")

\* at most one terminal outcome, after which nothing is sent
OneOutcome(t) ==
    /\ Cardinality(OfKind(t, {"final", "error"}))
         + (IF tasks[t].cancelled THEN 1 ELSE 0) <= 1
    /\ \A i \in OfKind(t, {"final", "error"}) : i = Len(Sent(t))
    /\ tasks[t].pc \in {"ret", "closed"} =>
         Cardinality(OfKind(t, {"final", "error"}))
           + (IF tasks[t].cancelled THEN 1 ELSE 0) = 1

\* C10 as stated: the Samples of a download have strictly increasing
\* Elapsed in send order and the download has exactly one terminal outcome.
C10_StrictlyIncreasing ==
    \A t \in Slots :
        /\ \A i, j \in DOMAIN Sent(t) :
              i < j => Sent(t)[i].st.Elapsed < Sent(t)[j].st.Elapsed
        /\ OneOutcome(t)

\* C10, amended: Elapsed never decreases in send order and increases
\* strictly from one tick Sample to the next; the download has exactly one
\* terminal outcome, after which nothing is sent.
C10_Ordered ==
    \A t \in Slots :
        /\ \A i \in OfKind(t, {"tick", "final"}) : Sent(t)[i].st.Elapsed >= 0
        /\ \A i, j \in OfKind(t, {"tick", "final"}) :
              i < j => Sent(t)[i].st.Elapsed <= Sent(t)[j].st.Elapsed
        /\ \A i, j \in OfKind(t, {"tick"}) :
              i < j => Sent(t)[i].st.Elapsed < Sent(t)[j].st.Elapsed
        /\ OneOutcome(t)

\* a tick Sample was received and a later Sample follows it
C10_Witness ==
    \E t \in Slots :
        /\ Len(Sent(t)) >= 2
        /\ Sent(t)[1].kind = "tick"
        /\ tasks[t].delivered >= 1

\* C11: a goroutine that returns without having taken the ctx.Done()
\* branch has sent at least one Sample, the last one being its final or
\* error Sample, and every Sample it sent was received.
C11_NonEmpty ==
    \A t \in Slots :
        (tasks[t].pc \in {"ret", "closed"} /\ ~tasks[t].cancelled) =>
            /\ Len(Sent(t)) >= 1
            /\ Sent(t)[Len(Sent(t))].kind \in {"final", "error"}
            /\ tasks[t].delivered = Len(Sent(t))

\* a download that reached end-of-stream returns after its final Sample
C11_Witness ==
    \E t \in Slots :
        /\ tasks[t].pc = "ret" /\ ~tasks[t].cancelled /\ tasks[t].getOk
        /\ Len(Sent(t)) = 1 /\ Sent(t)[1].kind = "final"

\* C12: the body of every download whose GET succeeded is eventually
\* closed and its ticker eventually stopped (or the process has exited).
C12_CleanupOnEveryPath ==
    \A t \in Slots :
        (tasks[t].bodyOpen \/ tasks[t].tickerOn)
            ~> ((~tasks[t].bodyOpen /\ ~tasks[t].tickerOn) \/ ~Running)

\* C13: a goroutine has at most one Sample produced and not yet received,
\* and while it has one it is blocked in the send: it neither reads nor
\* builds another Sample.
C13_SynchronousHandoff ==
    \A t \in Slots :
        /\ Len(Sent(t)) - tasks[t].delivered \in {0, 1}
        /\ Len(Sent(t)) > tasks[t].delivered <=> tasks[t].pc \in SendPcs
        /\ tasks[t].pc \in SendPcs => tasks[t].out = Sent(t)[Len(Sent(t))].st
        /\ tasks[t].pc \notin SendPcs => tasks[t].out = NoStats

\* a goroutine whose first Sample was received is blocked sending its second
C13_Witness ==
    \E t \in Slots :
        /\ tasks[t].pc \in SendPcs
        /\ tasks[t].delivered = 1 /\ Len(Sent(t)) = 2

\* the step in which main receives and prints a Sample that carries an error
ErrorReported ==
    /\ printed' # printed
    /\ printed' # NoStats
    /\ printed'.ok
    /\ printed'.st.Err # "nil"

C15_EmptyList ==
    (fileStatus = "ok" /\ urls = <<>>) =>
        /\ \A t \in Slots : tasks[t] = FreeTask
        /\ cur = 0
        /\ mainPc \notin {"select", "fatal"}
        /\ printed = NoStats

\* main has entered the range loop over an empty list
C15_Witness == fileStatus = "ok" /\ urls = <<>> /\ mainPc = "range"

\* C16: when urls.yaml cannot be read or parsed main goes from its start
\* to the fatal state only: no goroutine is started, no select entered,
\* no interrupt handler registered, no signal goroutine started.
C16_ConfigErrorFatal ==
    fileStatus # "ok" =>
        /\ mainPc \in {"start", "fatal"}
        /\ \A t \in Slots : tasks[t] = FreeTask
        /\ cur = 0
        /\ ~notified /\ sigPc = "none" /\ signalChan = 0 /\ ~ctxDone

\* a malformed urls.yaml has ended the process
C16_Witness == fileStatus = "malformed" /\ mainPc = "fatal"

\* C17: whatever main prints is a Sample that the goroutine of the current
\* URL sent, never the zero value received from a closed channel.
C17_PrintsOnlySent == printed # NoStats => printed.ok

\* C18: no URL visit begins, and downloadAndMeasure is not called, once
\* the context is done.
C18_NoDownloadAfterCancel ==
    [][(mainPc = "range" /\ mainPc' = "select") => ~ctxDone]_vars

\* C19: the SizeBytes of the non-error Samples of a download never
\* decreases and never exceeds the bytes read so far, hence the body
\* length; a Sample being sent carries exactly the bytes read so far; and
\* while a read is in progress no Sample is being built or sent.
C19_Cumulative ==
    \A t \in Slots :
        /\ \A i \in OfKind(t, {"tick", "final"}) :
              /\ Sent(t)[i].st.SizeBytes <= tasks[t].bodyLen - tasks[t].remaining
              /\ Sent(t)[i].st.SizeBytes <= tasks[t].bodyLen
        /\ \A i, j \in OfKind(t, {"tick", "final"}) :
              i < j => Sent(t)[i].st.SizeBytes <= Sent(t)[j].st.SizeBytes
        /\ tasks[t].pc \in {"sendTick", "sendFinal"} =>
              tasks[t].out.SizeBytes = tasks[t].bodyLen - tasks[t].remaining
        /\ tasks[t].pc = "reading" =>
              tasks[t].out = NoStats /\ tasks[t].delivered = Len(Sent(t))

\* a tick Sample built after one byte, then the final Sample after two
C19_Witness ==
    \E t \in Slots :
        /\ Len(Sent(t)) = 2
        /\ Sent(t)[1].kind = "tick" /\ Sent(t)[1].st.SizeBytes = 1
        /\ Sent(t)[2].kind = "final" /\ Sent(t)[2].st.SizeBytes = 2
====
